---- MODULE Spec2Model ----
(***************************************************************************)
(* A model of dioxus-heroicons.                                            *)
(*                                                                         *)
(*   gen/src/main.rs  the generator: for each of the three styles it walks *)
(*                    the style's directory, builds one Icon record per    *)
(*                    .svg file and writes <style>.rs from a template.     *)
(*   src/lib.rs       the Icon and IconButton components.                  *)
(*                                                                         *)
(* Text is a sequence of tokens.  A value read from the input (a file      *)
(* name, an attribute value) is a sequence of one-character tokens; the    *)
(* literal pieces of the templates are longer tokens, so no input value    *)
(* holds a placeholder or a piece of a template.                           *)
(***************************************************************************)
EXTENDS Integers, Sequences, FiniteSets, TLC

VARIABLES
    tree,      \* the input: directory of a style -> what WalkDir yields there
    pc,        \* where main is: "make_icons", "write_icons_file", "done", "panicked"
    style,     \* index into STYLES of the style in progress
    icons,     \* main's `icons`, the value make_icons returned
    disk,      \* style -> the output file this run wrote (<<>>: none)
    rustfmt,   \* style -> how the formatter ended: "notrun", "ok", "failed", "absent"
    panic,     \* the line of the panic that ended the run ("" while running)
    props,     \* the properties IconButton was rendered with
    dom,       \* the rendered button element
    calls,     \* how often the user's onclick handler was called
    clicks     \* how many click events were delivered

genVars == <<tree, pc, style, icons, disk, rustfmt, panic>>
uiVars  == <<props, dom, calls, clicks>>
vars    == <<tree, pc, style, icons, disk, rustfmt, panic, props, dom, calls, clicks>>

(***************************************************************************)
(* Bounds of the model.                                                    *)
(***************************************************************************)
MaxFiles  == 3    \* directory entries WalkDir yields for the style under study
MaxPaths  == 2    \* path elements of one icon
MaxClicks == 3    \* click events delivered to a button

(***************************************************************************)
(* Option<T>: None is the empty sequence, Some(v) the sequence <<v>>.      *)
(***************************************************************************)
None     == <<>>
Some(v)  == <<v>>
IsSome(o) == o # <<>>
Unwrap(o) == o[1]

(***************************************************************************)
(* Bytes.  OsStr and str order by bytes; Ascii lists the characters the    *)
(* model uses in ascending byte order.                                     *)
(***************************************************************************)
Ascii ==
    << " ", "-", ".", "/", "0", "1", "2", "4", "A", "B", "C", "I", "L", "M", "Z", "_",
       "a", "b", "c", "d", "e", "f", "g", "i", "l", "n", "o", "r", "s", "t",
       "v", "w", "x", "z" >>

Byte(c) == CHOOSE i \in 1..Len(Ascii) : Ascii[i] = c

\* Ord::cmp on two byte strings: "Less", "Equal" or "Greater".
RECURSIVE Cmp(_, _)
Cmp(a, b) ==
    IF a = <<>> /\ b = <<>> THEN "Equal"
    ELSE IF a = <<>> THEN "Less"
    ELSE IF b = <<>> THEN "Greater"
    ELSE IF Byte(Head(a)) < Byte(Head(b)) THEN "Less"
    ELSE IF Byte(Head(a)) > Byte(Head(b)) THEN "Greater"
    ELSE Cmp(Tail(a), Tail(b))

EndsWith(s, pat) ==
    /\ Len(s) >= Len(pat)
    /\ SubSeq(s, Len(s) - Len(pat) + 1, Len(s)) = pat

\* str::trim_end_matches: strips the suffix as often as it matches.
RECURSIVE TrimEndMatches(_, _)
TrimEndMatches(s, pat) ==
    IF pat # <<>> /\ EndsWith(s, pat)
    THEN TrimEndMatches(SubSeq(s, 1, Len(s) - Len(pat)), pat)
    ELSE s

\* [T]::join: the pieces with sep between consecutive ones.
RECURSIVE Join(_, _)
Join(pieces, sep) ==
    IF pieces = <<>> THEN <<>>
    ELSE IF Len(pieces) = 1 THEN pieces[1]
    ELSE pieces[1] \o sep \o Join(Tail(pieces), sep)

\* str::replace on token text: every token ph becomes the tokens of r.
RECURSIVE Replace(_, _, _)
Replace(s, ph, r) ==
    IF s = <<>> THEN <<>>
    ELSE (IF Head(s) = ph THEN r ELSE <<Head(s)>>) \o Replace(Tail(s), ph, r)

(***************************************************************************)
(* heck::ToUpperCamelCase on names of lower-case letters, digits and       *)
(* separators: a word ends at every character that is not alphanumeric,    *)
(* empty words are dropped, each word's first character is upper-cased.    *)
(***************************************************************************)
Lowers == << "a", "b", "c", "d", "e", "f", "g", "i", "l", "n", "o", "r", "s", "t",
            "v", "w", "x", "z" >>
Uppers == << "A", "B", "C", "D", "E", "F", "G", "I", "L", "N", "O", "R", "S", "T",
            "V", "W", "X", "Z" >>

IsAlphanumeric(c) == c \notin {" ", "-", ".", "/", "_"}

ToUppercase(c) ==
    IF \E i \in 1..Len(Lowers) : Lowers[i] = c
    THEN Uppers[CHOOSE i \in 1..Len(Lowers) : Lowers[i] = c]
    ELSE c

RECURSIVE CamelFrom(_, _)
CamelFrom(s, wordStart) ==
    IF s = <<>> THEN <<>>
    ELSE IF ~IsAlphanumeric(Head(s)) THEN CamelFrom(Tail(s), TRUE)
    ELSE <<IF wordStart THEN ToUppercase(Head(s)) ELSE Head(s)>>
             \o CamelFrom(Tail(s), FALSE)

ToUpperCamelCase(s) == CamelFrom(s, TRUE)

(***************************************************************************)
(* The input.  A directory entry as WalkDir yields it: an error (ok is     *)
(* FALSE), or an entry with the directory it lies in below the style's     *)
(* root, its file name, whether it is a regular file, and the file's       *)
(* content.  A content is unreadable, or the parsed fragment: its svg      *)
(* elements in document order, each with its attributes and its path       *)
(* elements (each the set of its <<attribute name, value>> pairs).           *)
(***************************************************************************)
WalkError == [ok |-> FALSE, dir |-> <<>>, file_name |-> <<>>, is_file |-> FALSE,
              content |-> [readable |-> FALSE, svgs |-> <<>>]]

Entry(dir, file_name, is_file, content) ==
    [ok |-> TRUE, dir |-> dir, file_name |-> file_name, is_file |-> is_file,
     content |-> content]

Unreadable == [readable |-> FALSE, svgs |-> <<>>]
Fragment(svgs) == [readable |-> TRUE, svgs |-> svgs]
Element(attrs, paths) == [attrs |-> attrs, paths |-> paths]

\* The attributes given by the options d, clip, fill (None: attribute absent).
PathAttrs(d, clip, fill) ==
    { <<"d", v>> : v \in { Unwrap(o) : o \in {d} \ {None} } }
    \cup { <<"clip-rule", v>> : v \in { Unwrap(o) : o \in {clip} \ {None} } }
    \cup { <<"fill-rule", v>> : v \in { Unwrap(o) : o \in {fill} \ {None} } }

SvgAttrs(viewBox) ==
    { <<"viewBox", v>> : v \in { Unwrap(o) : o \in {viewBox} \ {None} } }

\* scraper's ElementRef::value().attr(name)
Attr(attrs, name) ==
    IF \E p \in attrs : p[1] = name
    THEN Some((CHOOSE p \in attrs : p[1] = name)[2])
    ELSE None

DotSvg == << ".", "s", "v", "g" >>

(***************************************************************************)
(* gen/src/main.rs                                                         *)
(***************************************************************************)
STYLES == << "outline", "solid", "mini" >>

style_to_dir(s) ==
    CASE s = "outline" -> "24/outline"
      [] s = "solid"   -> "24/solid"
      [] s = "mini"    -> "20/solid"

Dirs == { style_to_dir(STYLES[i]) : i \in 1..Len(STYLES) }

\* .filter_map(|e| e.ok()).filter(|e| is_file && file_name ends with ".svg")
IsIconFile(e) == e.ok /\ e.is_file /\ EndsWith(e.file_name, DotSvg)

Discovered(walk) == SelectSeq(walk, IsIconFile)

\* The comparison by path below the style's root.
ByPath(a, b) == Cmp(a.dir \o <<"/">> \o a.file_name, b.dir \o <<"/">> \o b.file_name)

\* The comparison handed to sorted_by: by file name, not by path.
ByFileName(a, b) == Cmp(a.file_name, b.file_name)

\* Itertools::sorted_by is a stable sort: e goes behind every entry that is
\* not greater than it.
RECURSIVE InsertSorted(_, _)
InsertSorted(s, e) ==
    IF s = <<>> THEN <<e>>
    ELSE IF ByFileName(Head(s), e) = "Greater" THEN <<e>> \o s
    ELSE <<Head(s)>> \o InsertSorted(Tail(s), e)

RECURSIVE SortInto(_, _)
SortInto(done, rest) ==
    IF rest = <<>> THEN done
    ELSE SortInto(InsertSorted(done, Head(rest)), Tail(rest))

SortedBy(s) == SortInto(<<>>, s)

\* entry.file_name().to_str().unwrap().trim_end_matches(".svg").to_upper_camel_case()
IconName(e) == ToUpperCamelCase(TrimEndMatches(e.file_name, DotSvg))

\* The last path element's value instead of the first's.
RECURSIVE FindMapLast(_, _)
FindMapLast(paths, name) ==
    IF paths = <<>> THEN None
    ELSE IF IsSome(Attr(paths[Len(paths)], name)) THEN Attr(paths[Len(paths)], name)
    ELSE FindMapLast(SubSeq(paths, 1, Len(paths) - 1), name)

\* Iterator::find_map(|e| e.value().attr(name)) over the path elements.
RECURSIVE FindMap(_, _)
FindMap(paths, name) ==
    IF paths = <<>> THEN None
    ELSE IF IsSome(Attr(Head(paths), name)) THEN Attr(Head(paths), name)
    ELSE FindMap(Tail(paths), name)

\* .map(|e| e.value().attr("d").unwrap().to_string()).collect::<Vec<_>>().join(" ")
Instructions(paths) == [i \in 1..Len(paths) |-> Unwrap(Attr(paths[i], "d"))]

JoinedNoSpace(paths) == Join(Instructions(paths), <<>>)

JoinedPath(paths) == Join(Instructions(paths), <<" ">>)

LacksD(paths) == \E i \in 1..Len(paths) : ~IsSome(Attr(paths[i], "d"))

\* The line of the first unwrap of the loop body that panics for this entry,
\* "" when none does.
PanicOf(e) ==
    IF ~e.content.readable THEN "main.rs:74"
    ELSE IF e.content.svgs = <<>> THEN "main.rs:76"
    ELSE IF ~IsSome(Attr(Head(e.content.svgs).attrs, "viewBox")) THEN "main.rs:80"
    ELSE IF LacksD(Head(e.content.svgs).paths) THEN "main.rs:83"
    ELSE ""

\* The Icon pushed for an entry whose file parses: the first svg element's
\* viewBox, its paths' instructions, and the first clip-rule and fill-rule.
MakeIcon(e) ==
    LET svg == Head(e.content.svgs) IN
    [name      |-> IconName(e),
     viewbox   |-> Unwrap(Attr(svg.attrs, "viewBox")),
     path      |-> JoinedPath(svg.paths),
     clip_rule |-> FindMap(svg.paths, "clip-rule"),
     fill_rule |-> FindMap(svg.paths, "fill-rule")]

RECURSIVE PushIconsSkipping(_, _)
PushIconsSkipping(acc, entries) ==
    IF entries = <<>> THEN [panic |-> "", icons |-> acc]
    ELSE IF PanicOf(Head(entries)) # "" THEN PushIconsSkipping(acc, Tail(entries))
    ELSE PushIconsSkipping(Append(acc, MakeIcon(Head(entries))), Tail(entries))

\* The loop of make_icons over the sorted entries: the icons pushed so far,
\* and the panic that ended it, if one did.
RECURSIVE PushIcons(_, _)
PushIcons(acc, entries) ==
    IF entries = <<>> THEN [panic |-> "", icons |-> acc]
    ELSE IF PanicOf(Head(entries)) # ""
         THEN [panic |-> PanicOf(Head(entries)), icons |-> acc]
    ELSE PushIcons(Append(acc, MakeIcon(Head(entries))), Tail(entries))

make_icons(walk) == PushIcons(<<>>, SortedBy(Discovered(walk)))

(***************************************************************************)
(* The templates.  TEMPLATE and PATH_TEMPLATE are cut at their             *)
(* placeholders; the pieces between them are single tokens (the back       *)
(* quotes of the doc comment are left out: a TLA+ string cannot hold them). *)
(***************************************************************************)
TemplateHead ==
    "\nuse dioxus::prelude::*;\n\npub(crate) const VIEW_BOX: &str = \""
TemplateEnum ==
    "\";\n\n/// All available icon shapes\n///\n/// See the enum variants for the shape names. These names are always the\n/// CamelCase version of the original heroicon name. So for example,\n/// \"arrow-narrow-left\" becomes ArrowNarrowLeft.\n#[allow(dead_code)]\n#[derive(Clone, Copy, Debug, PartialEq)]\npub enum Shape {\n    "
TemplateImpl ==
    "\n}\n\nimpl crate::IconShape for Shape {\n    fn view_box(&self) -> &str {\n        VIEW_BOX\n    }\n\n    #[allow(clippy::too_many_lines)]\n    fn path(&self) -> Element {\n        match self {\n            "
TemplateTail == "\n        }\n    }\n}\n"

TEMPLATE ==
    << TemplateHead, "{VIEWBOX}", TemplateEnum, "{NAMES}", TemplateImpl, "{PATHS}",
       TemplateTail >>

ClauseHead == "\nShape::"
ClauseBody == " => rsx! {\n    path {\n        "
ClauseTail == "\n    },\n},"

PATH_TEMPLATE == << ClauseHead, "{NAME}", ClauseBody, "{ATTRS}", ClauseTail >>

AttrOpen(name, indent) == (IF indent THEN "        " ELSE "") \o name \o ": \""
AttrClose == "\","

\* format!(r#"{}{}: "{}","#, indent, name, v) for Some(v), None for None.
attr(name, value, indent) ==
    IF IsSome(value)
    THEN Some(<<AttrOpen(name, indent)>> \o Unwrap(value) \o <<AttrClose>>)
    ELSE None

\* .iter().filter_map(|a| a.as_deref()).collect(): the values of the Somes.
RECURSIVE FilterMap(_)
FilterMap(options) ==
    IF options = <<>> THEN <<>>
    ELSE (IF IsSome(Head(options)) THEN <<Unwrap(Head(options))>> ELSE <<>>)
           \o FilterMap(Tail(options))

\* The mapping clause of one icon.
PathClause(i) ==
    LET attrs == Join(FilterMap(<< attr("d", Some(i.path), FALSE),
                                   attr("clip_rule", i.clip_rule, TRUE),
                                   attr("fill_rule", i.fill_rule, TRUE) >>),
                      <<"\n">>)
    IN  Replace(Replace(PATH_TEMPLATE, "{NAME}", i.name), "{ATTRS}", attrs)

NamesText(is) == Join([k \in 1..Len(is) |-> is[k].name], <<",\n">>)

PathsText(is) == Join([k \in 1..Len(is) |-> PathClause(is[k])], <<>>)

\* &icons[0].viewbox; the index panics on an empty slice.
IndexPanics(is) == is = <<>>

LastViewbox(is) == is[Len(is)].viewbox

FirstViewbox(is) == is[1].viewbox

\* The text write_icons_file hands to fs::write.
Code(is) ==
    Replace(Replace(Replace(TEMPLATE, "{VIEWBOX}", FirstViewbox(is)),
                    "{NAMES}", NamesText(is)),
            "{PATHS}", PathsText(is))

\* to.push(&format!("{}.rs", style)): the output file of a style.
AlwaysOutline(s) == "outline"

OutputFile(s) == s

\* Command::new("rustfmt").arg(to).output().unwrap(): output() is an Err, and
\* the unwrap panics, when the formatter cannot be started; a formatter that
\* runs and exits with a failure is an Ok whose status nobody reads.
PanicsUnlessFormatted(outcome) == outcome # "ok"

RustfmtPanics(outcome) == outcome = "absent"

(***************************************************************************)
(* main: one iteration of the loop over STYLES is make_icons, then         *)
(* write_icons_file.                                                       *)
(***************************************************************************)
MakeIconsStep ==
    /\ pc = "make_icons"
    /\ LET r == make_icons(tree[style_to_dir(STYLES[style])]) IN
         IF r.panic # ""
         THEN /\ pc' = "panicked"
              /\ panic' = r.panic
              /\ icons' = <<>>
         ELSE /\ pc' = "write_icons_file"
              /\ panic' = panic
              /\ icons' = r.icons
    /\ UNCHANGED <<tree, style, disk, rustfmt>>
    /\ UNCHANGED uiVars

\* The file fs::write leaves behind: the whole text; or, when it fails, no
\* file (File::create failed) or a file cut short (write_all failed).
FileOf(code, write) ==
    IF write = "ok" THEN Some([code |-> code, complete |-> TRUE, formatted |-> FALSE])
    ELSE IF write = "create failed" THEN None
    ELSE Some([code |-> <<>>, complete |-> FALSE, formatted |-> FALSE])

\* rustfmt rewrites the file's layout when it succeeds and leaves it alone
\* otherwise.
Formatted(file, outcome) ==
    IF outcome = "ok" THEN Some([Unwrap(file) EXCEPT !.formatted = TRUE]) ELSE file

\* write: how fs::write ended; outcome: how the formatter ended.
WriteIconsFileStep ==
    /\ pc = "write_icons_file"
    /\ \E write \in {"ok", "create failed", "write failed"},
          outcome \in {"ok", "failed", "absent"} :
         IF IndexPanics(icons)
         THEN /\ pc' = "panicked"
              /\ panic' = "main.rs:164"
              /\ UNCHANGED <<style, disk, rustfmt>>
         ELSE IF write # "ok"
         THEN /\ pc' = "panicked"
              /\ panic' = "main.rs:168"
              /\ disk' = [disk EXCEPT ![OutputFile(STYLES[style])] =
                            FileOf(Code(icons), write)]
              /\ UNCHANGED <<style, rustfmt>>
         ELSE /\ disk' = [disk EXCEPT ![OutputFile(STYLES[style])] =
                            Formatted(FileOf(Code(icons), write), outcome)]
              /\ rustfmt' = [rustfmt EXCEPT ![STYLES[style]] = outcome]
              /\ IF RustfmtPanics(outcome)
                 THEN /\ pc' = "panicked"
                      /\ panic' = "main.rs:169"
                      /\ style' = style
                 ELSE /\ pc' = IF style = Len(STYLES) THEN "done" ELSE "make_icons"
                      /\ panic' = panic
                      /\ style' = IF style = Len(STYLES) THEN style ELSE style + 1
    /\ icons' = <<>>
    /\ UNCHANGED tree
    /\ UNCHANGED uiVars

GenNext == MakeIconsStep \/ WriteIconsFileStep

StyleSet == { STYLES[i] : i \in 1..Len(STYLES) }

GenStart ==
    /\ pc = "make_icons"
    /\ style = 1
    /\ icons = <<>>
    /\ disk = [s \in StyleSet |-> None]
    /\ rustfmt = [s \in StyleSet |-> "notrun"]
    /\ panic = ""

(***************************************************************************)
(* src/lib.rs.  What the caller writes in rsx! is a record of options      *)
(* (None: the property is left out); the Props builders fill in the        *)
(* defaults.                                                               *)
(***************************************************************************)
DISABLED_FILL_COLOR == "#9CA3AF"
DefaultFill == "currentColor"
DefaultSize == 20

OrDefault(o, default) == IF IsSome(o) THEN Unwrap(o) ELSE default

\* #[derive(Props)] for IconProps
IconPropsOf(given) ==
    [class         |-> None,
     size          |-> DefaultSize,
     fill          |-> OrDefault(given.fill, DefaultFill),
     icon          |-> given.icon,
     disabled      |-> OrDefault(given.disabled, FALSE),
     disabled_fill |-> OrDefault(given.disabled_fill, DISABLED_FILL_COLOR)]

\* #[derive(Props)] for IconButtonProps
IconButtonPropsOf(given) ==
    [onclick       |-> given.onclick,
     class         |-> None,
     title         |-> None,
     size          |-> DefaultSize,
     fill          |-> OrDefault(given.fill, DefaultFill),
     disabled      |-> OrDefault(given.disabled, FALSE),
     disabled_fill |-> OrDefault(given.disabled_fill, DISABLED_FILL_COLOR),
     icon          |-> given.icon,
     icon_class    |-> None]

\* let fill = if props.disabled { props.disabled_fill } else { props.fill };
AlwaysFill(p) == p.fill

FillOf(p) == IF p.disabled THEN p.disabled_fill ELSE p.fill

\* The svg element Icon renders.
Icon(p) ==
    [tag      |-> "svg",
     class    |-> p.class,
     height   |-> p.size,
     width    |-> p.size,
     view_box |-> p.icon,
     fill     |-> FillOf(p)]

\* The button's onclick closure, run on one click event: how often it calls
\* the user's handler.
CallsIfSupplied(closure) == IF IsSome(closure.onclick) THEN 1 ELSE 0

CallsOnClick(closure) ==
    IF ~closure.disabled
    THEN IF IsSome(closure.onclick) THEN 1 ELSE 0
    ELSE 0

\* The properties IconButton hands to the inner Icon.
InnerIconProps(p) ==
    [class         |-> p.icon_class,
     size          |-> p.size,
     fill          |-> p.fill,
     icon          |-> p.icon,
     disabled      |-> p.disabled,
     disabled_fill |-> p.disabled_fill]

\* The button element IconButton renders; its closure captures disabled and
\* onclick as they are at this render.
IconButton(p) ==
    [tag      |-> "button",
     onclick  |-> [disabled |-> p.disabled, onclick |-> p.onclick],
     class    |-> p.class,
     title    |-> p.title,
     disabled |-> p.disabled,
     svg      |-> Icon(InnerIconProps(p))]

Colors == {"currentColor", "#9CA3AF", "blue"}
Optional(S) == {None} \cup { Some(v) : v \in S }

\* What a caller may write for either component.
Given ==
    [onclick       : Optional({"handler"}),
     fill          : Optional(Colors),
     disabled      : Optional(BOOLEAN),
     disabled_fill : Optional(Colors),
     icon          : {"outline::Shape::ArrowLeft"}]

\* A standalone Icon is rendered: it has no onclick property.
RenderIcon ==
    \E given \in Given :
        /\ given.onclick = None
        /\ props' = [component |-> "Icon", given |-> given]
        /\ dom' = Icon(IconPropsOf(given))
        /\ UNCHANGED <<calls, clicks>>
        /\ UNCHANGED genVars

\* An IconButton is rendered.
RenderIconButton ==
    \E given \in Given :
        /\ props' = [component |-> "IconButton", given |-> given]
        /\ dom' = IconButton(IconButtonPropsOf(given))
        /\ UNCHANGED <<calls, clicks>>
        /\ UNCHANGED genVars

\* One click event is delivered to the rendered button.
Click ==
    /\ dom.tag = "button"
    /\ clicks < MaxClicks
    /\ clicks' = clicks + 1
    /\ calls' = calls + CallsOnClick(dom.onclick)
    /\ UNCHANGED <<props, dom>>
    /\ UNCHANGED genVars

UiNext == RenderIcon \/ RenderIconButton \/ Click

\* Nothing rendered yet.
UiStart ==
    /\ props = [component |-> "none", given |-> None]
    /\ dom = [tag |-> "none"]
    /\ calls = 0
    /\ clicks = 0

\* The generator has not been run.
GenIdle ==
    /\ tree = [d \in Dirs |-> <<>>]
    /\ pc = "done"
    /\ style = 1
    /\ icons = <<>>
    /\ disk = [s \in StyleSet |-> None]
    /\ rustfmt = [s \in StyleSet |-> "notrun"]
    /\ panic = ""

UiInit == UiStart /\ GenIdle

SpecUi == UiInit /\ [][UiNext]_vars

(***************************************************************************)
(* Inputs of the generator.  One style's directory is drawn from a family  *)
(* of walks; the other two hold one well-formed icon.                      *)
(***************************************************************************)
VB24 == << "0", " ", "0", " ", "2", "4", " ", "2", "4" >>
VB20 == << "0", " ", "0", " ", "2", "0", " ", "2", "0" >>
M1 == << "M", "1" >>
M2 == << "M", "2" >>
EvenOdd == << "e", "v", "e", "n", "o", "d", "d" >>
NonZero == << "n", "o", "n", "z", "e", "r", "o" >>

SvgFile(viewBox, paths) == Fragment(<< Element(SvgAttrs(viewBox), paths) >>)

PlainContent == SvgFile(Some(VB24), << PathAttrs(Some(M1), None, None) >>)

IconFile(dir, base, content) == Entry(dir, base \o DotSvg, TRUE, content)

PlainWalk == << IconFile(<<>>, <<"a">>, PlainContent) >>

\* The sequences of at most n distinct members of E.
Walks(E, n) ==
    UNION { { w \in [1..k -> E] : \A i, j \in 1..k : i # j => w[i] # w[j] }
            : k \in 0..n }

TreeWith(r, walk) ==
    [d \in Dirs |-> IF d = style_to_dir(STYLES[r]) THEN walk ELSE PlainWalk]

\* File names: the entries a walk may yield when the names are under study:
\* icon files at the root and below it, a file that is no icon, a directory.
NameEntries ==
    { IconFile(<<>>, <<"z", "-", "i", "c", "o", "n">>, PlainContent),
      IconFile(<<>>, <<"a", "-", "i", "c", "o", "n">>, PlainContent),
      IconFile(<<>>, <<"a", "r", "r", "o", "w", "-", "l", "e", "f", "t">>, PlainContent),
      IconFile(<<>>, <<"a">>, PlainContent),
      IconFile(<<"b">>, <<"a">>, PlainContent),
      IconFile(<<>>, <<"a", "-", "b">>, PlainContent),
      IconFile(<<>>, <<"a", "-", "1">>, PlainContent),
      IconFile(<<>>, <<"a", "1">>, PlainContent),
      Entry(<<>>, <<"a", ".", "t", "x", "t">>, TRUE, Unreadable),
      Entry(<<>>, <<"c", ".", "s", "v", "g">>, FALSE, Unreadable) }

InitNames ==
    /\ \E r \in 1..Len(STYLES), walk \in Walks(NameEntries, MaxFiles) :
         tree = TreeWith(r, walk)
    /\ GenStart
    /\ UiStart

SpecNames == InitNames /\ [][GenNext]_vars

\* File contents: well-formed icons with either viewBox, and the malformed
\* ones.  The k-th file of the walk is named by the k-th letter.
RunContents ==
    { Unreadable,
      Fragment(<<>>),
      SvgFile(None, << PathAttrs(Some(M1), None, None) >>),
      SvgFile(Some(VB24), << PathAttrs(Some(M1), None, None), PathAttrs(None, None, None) >>),
      SvgFile(Some(VB24), << PathAttrs(Some(M1), None, None) >>),
      SvgFile(Some(VB20), << PathAttrs(Some(M2), None, Some(EvenOdd)) >>) }

Letters == << "a", "b", "c", "d", "e", "f" >>

\* The files 1..n with the contents cs, as WalkDir yields them: in ascending
\* or in descending order of their names.
RunWalk(n, cs, descending) ==
    [k \in 1..n |-> LET f == IF descending THEN n + 1 - k ELSE k
                    IN  IconFile(<<>>, <<Letters[f]>>, cs[f])]

RunWalks ==
    { <<WalkError>> }
    \cup UNION { { RunWalk(n, cs, desc) : cs \in [1..n -> RunContents], desc \in BOOLEAN }
                 : n \in 0..MaxFiles }

Init ==
    /\ \E r \in 1..Len(STYLES), walk \in RunWalks : tree = TreeWith(r, walk)
    /\ GenStart
    /\ UiStart

Spec == Init /\ [][GenNext]_vars

\* Path elements: one icon file whose paths carry any instruction and any
\* combination of the two rules.
Rules == { None, Some(EvenOdd), Some(NonZero) }

PathElements ==
    { PathAttrs(Some(d), clip, fill) : d \in {M1, M2}, clip \in Rules, fill \in Rules }

IconWalks ==
    UNION { { << IconFile(<<>>, <<"z">>, SvgFile(Some(VB20), paths)) >>
              : paths \in [1..n -> PathElements] } : n \in 0..MaxPaths }

InitIcon ==
    /\ \E r \in 1..Len(STYLES), walk \in IconWalks : tree = TreeWith(r, walk)
    /\ GenStart
    /\ UiStart

SpecIcon == InitIcon /\ [][GenNext]_vars

(***************************************************************************)
(* Reading a generated file back: the pieces of the template delimit the   *)
(* constant, the variants and the mapping clauses.                         *)
(***************************************************************************)
IndexOf(seq, tok) ==
    CHOOSE i \in 1..Len(seq) : seq[i] = tok /\ \A j \in 1..(i - 1) : seq[j] # tok

Occurs(seq, tok) == \E i \in 1..Len(seq) : seq[i] = tok

\* The tokens after the first `open` up to the next `close`.
Between(seq, open, close) ==
    LET rest == SubSeq(seq, IndexOf(seq, open) + 1, Len(seq))
    IN  SubSeq(rest, 1, IndexOf(rest, close) - 1)

RECURSIVE SplitOn(_, _)
SplitOn(seq, sep) ==
    IF ~Occurs(seq, sep) THEN <<seq>>
    ELSE <<SubSeq(seq, 1, IndexOf(seq, sep) - 1)>>
           \o SplitOn(SubSeq(seq, IndexOf(seq, sep) + 1, Len(seq)), sep)

Written(s) == IsSome(disk[s]) /\ Unwrap(disk[s]).complete
CodeOf(s) == Unwrap(disk[s]).code

DeclaredViewBox(code) == Between(code, TemplateHead, TemplateEnum)
DeclaredNames(code) == SplitOn(Between(code, TemplateEnum, TemplateImpl), ",\n")

\* The mapping clauses in file order, each with its variant and its
\* attribute lines (opening token, value, closing token).
DeclaredClauses(code) ==
    LET texts == Tail(SplitOn(Between(code, TemplateImpl, TemplateTail), ClauseHead))
    IN  [k \in 1..Len(texts) |->
           [name  |-> SubSeq(texts[k], 1, IndexOf(texts[k], ClauseBody) - 1),
            attrs |-> SplitOn(Between(texts[k], ClauseBody, ClauseTail), "\n")]]

AttrLines(clause, name) ==
    { k \in 1..Len(clause.attrs) :
        /\ clause.attrs[k] # <<>>
        /\ Head(clause.attrs[k]) \in { name \o ": \"", "        " \o name \o ": \"" } }

HasAttr(clause, name) == AttrLines(clause, name) # {}

AttrValue(clause, name) ==
    LET line == clause.attrs[CHOOSE k \in AttrLines(clause, name) : TRUE]
    IN  SubSeq(line, 2, Len(line) - 1)

IconEntries(s) == Discovered(tree[style_to_dir(s)])

Orderings(n) == { p \in [1..n -> 1..n] : \A i, j \in 1..n : i # j => p[i] # p[j] }

\* names is the entries' identifiers, taken in an ascending order of the
\* entries' file names.
InFileNameOrder(names, es) ==
    /\ Len(names) = Len(es)
    /\ \E p \in Orderings(Len(es)) :
         /\ \A i \in 1..Len(es) : names[i] = IconName(es[p[i]])
         /\ \A i \in 1..(Len(es) - 1) :
              Cmp(es[p[i]].file_name, es[p[i + 1]].file_name) # "Greater"

\* C1: the icon records make_icons returns, and the variants of the generated
\* Shape enumeration, are in ascending byte order of the file names of the
\* style's icon files, wherever in the walk and at whatever depth they were found.
C1_FileNameOrder ==
    /\ pc = "write_icons_file"
         => InFileNameOrder([k \in 1..Len(icons) |-> icons[k].name],
                            IconEntries(STYLES[style]))
    /\ \A s \in StyleSet :
         Written(s) => InFileNameOrder(DeclaredNames(CodeOf(s)), IconEntries(s))

\* The spec's example: z-icon, a-icon, arrow-left come out as AIcon, ArrowLeft, ZIcon.
C1_Witness ==
    \E s \in StyleSet :
        /\ Written(s)
        /\ [k \in 1..Len(tree[style_to_dir(s)]) |-> tree[style_to_dir(s)][k].file_name]
             = << <<"z", "-", "i", "c", "o", "n">> \o DotSvg,
                  <<"a", "-", "i", "c", "o", "n">> \o DotSvg,
                  <<"a", "r", "r", "o", "w", "-", "l", "e", "f", "t">> \o DotSvg >>
        /\ DeclaredNames(CodeOf(s))
             = << <<"A", "I", "c", "o", "n">>,
                  <<"A", "r", "r", "o", "w", "L", "e", "f", "t">>,
                  <<"Z", "I", "c", "o", "n">> >>

\* The entry a clause was generated from (file names are distinct here).
EntryOf(s, clause) ==
    CHOOSE e \in { IconEntries(s)[k] : k \in 1..Len(IconEntries(s)) } :
        IconName(e) = clause.name

PathsOf(e) == Head(e.content.svgs).paths

Carriers(paths, name) == { k \in 1..Len(paths) : \E a \in paths[k] : a[1] = name }

FirstCarried(paths, name) ==
    LET k == CHOOSE c \in Carriers(paths, name) : \A o \in Carriers(paths, name) : c <= o
    IN  (CHOOSE a \in paths[k] : a[1] = name)[2]

RuleRecorded(clause, written, paths, name) ==
    /\ HasAttr(clause, written) <=> Carriers(paths, name) # {}
    /\ HasAttr(clause, written)
         => AttrValue(clause, written) = FirstCarried(paths, name)

\* C2: every mapping clause holds the d attribute; it holds clip_rule
\* (fill_rule) exactly when some path of the icon carries clip-rule
\* (fill-rule), and then with the value of the first path that carries it.
C2_OptionalAttributes ==
    \A s \in StyleSet :
        Written(s) =>
            \A k \in 1..Len(DeclaredClauses(CodeOf(s))) :
                LET clause == DeclaredClauses(CodeOf(s))[k]
                    paths  == PathsOf(EntryOf(s, clause))
                IN  /\ HasAttr(clause, "d")
                    /\ RuleRecorded(clause, "clip_rule", paths, "clip-rule")
                    /\ RuleRecorded(clause, "fill_rule", paths, "fill-rule")

\* A fill-rule on the second path only, a clip-rule that differs between the
\* two paths: the clause records the second path's fill-rule and the first
\* path's clip-rule.
C2_Witness ==
    \E s \in StyleSet :
        /\ Written(s)
        /\ LET clause == DeclaredClauses(CodeOf(s))[1]
               paths  == PathsOf(EntryOf(s, clause))
           IN  /\ Len(paths) = 2
               /\ Carriers(paths, "fill-rule") = {2}
               /\ HasAttr(clause, "fill_rule")
               /\ AttrValue(clause, "fill_rule") = EvenOdd
               /\ Attr(paths[1], "clip-rule") = Some(NonZero)
               /\ Attr(paths[2], "clip-rule") = Some(EvenOdd)
               /\ AttrValue(clause, "clip_rule") = NonZero

RECURSIVE LengthsUpTo(_, _)
LengthsUpTo(ds, k) == IF k = 0 THEN 0 ELSE Len(ds[k]) + 1 + LengthsUpTo(ds, k - 1)

\* path is the instructions ds in order, one space between neighbours and
\* nothing before the first or after the last.
SpaceJoined(path, ds) ==
    /\ Len(path) = IF ds = <<>> THEN 0 ELSE LengthsUpTo(ds, Len(ds)) - 1
    /\ \A k \in 1..Len(ds) :
         LET start == LengthsUpTo(ds, k - 1)
         IN  /\ SubSeq(path, start + 1, start + Len(ds[k])) = ds[k]
             /\ k < Len(ds) => path[start + Len(ds[k]) + 1] = " "

DOf(paths) == [k \in 1..Len(paths) |-> (CHOOSE a \in paths[k] : a[1] = "d")[2]]

\* C3: an icon record's path is the d values of its path elements in
\* document order, joined by single spaces.
C3_PathJoined ==
    pc = "write_icons_file" =>
        \A k \in 1..Len(icons) :
            SpaceJoined(icons[k].path, DOf(PathsOf(IconEntries(STYLES[style])[k])))

\* Paths "M1" and "M2" give "M1 M2".
C3_Witness ==
    /\ pc = "write_icons_file"
    /\ Len(icons) = 1
    /\ DOf(PathsOf(IconEntries(STYLES[style])[1])) = << M1, M2 >>
    /\ icons[1].path = << "M", "1", " ", "M", "2" >>

EntrySet(s) == { IconEntries(s)[k] : k \in 1..Len(IconEntries(s)) }

\* The icon file whose name is least (file names are distinct here).
FirstByName(s) ==
    CHOOSE e \in EntrySet(s) :
        \A o \in EntrySet(s) : Cmp(e.file_name, o.file_name) # "Greater"

ViewBoxIn(e) == (CHOOSE a \in Head(e.content.svgs).attrs : a[1] = "viewBox")[2]

NoSvg(e) == e.content.readable /\ e.content.svgs = <<>>

NoViewBox(e) ==
    /\ e.content.readable
    /\ e.content.svgs # <<>>
    /\ ~\E a \in Head(e.content.svgs).attrs : a[1] = "viewBox"

PathLacksD(e) ==
    /\ e.content.readable
    /\ e.content.svgs # <<>>
    /\ \E k \in 1..Len(PathsOf(e)) : ~\E a \in PathsOf(e)[k] : a[1] = "d"

Malformed(e) == ~e.content.readable \/ NoSvg(e) \/ NoViewBox(e) \/ PathLacksD(e)

InMakeIcons == { "main.rs:74", "main.rs:76", "main.rs:80", "main.rs:83" }

\* C4: VIEW_BOX of a generated file is the viewBox of the style's first icon
\* in file-name order, whatever the other icons' viewBoxes are; and no run
\* is aborted in make_icons unless one of the style's files is malformed.
C4_ViewBoxOfFirstIcon ==
    /\ \A s \in StyleSet :
         Written(s) => DeclaredViewBox(CodeOf(s)) = ViewBoxIn(FirstByName(s))
    /\ (pc = "panicked" /\ panic \in InMakeIcons)
         => \E e \in EntrySet(STYLES[style]) : Malformed(e)

\* The walk yields b.svg (viewBox "0 0 24 24") before a.svg ("0 0 20 20"): the
\* constant is a.svg's, and the run went on to its end.
C4_Witness ==
    \E s \in StyleSet :
        /\ Written(s)
        /\ pc = "done"
        /\ Len(IconEntries(s)) = 2
        /\ IconEntries(s)[1].file_name = <<"b">> \o DotSvg
        /\ ViewBoxIn(IconEntries(s)[1]) = VB24
        /\ ViewBoxIn(IconEntries(s)[2]) = VB20
        /\ DeclaredViewBox(CodeOf(s)) = VB20

\* The style's root is missing or unreadable: the walk is one error.
RootMissing(k) == tree[style_to_dir(STYLES[k])] = <<WalkError>>

StructureError(k) ==
    \/ RootMissing(k)
    \/ \E e \in EntrySet(STYLES[k]) : NoSvg(e) \/ NoViewBox(e) \/ PathLacksD(e)

\* C5: a style whose root is missing, or one of whose icon files has no svg
\* element, no viewBox or a path without d, is never completed: the run
\* does not get past it, writes nothing for it or for a later style, and
\* make_icons returns for it, if at all, with no icon, on which
\* write_icons_file panics.
C5_StructureErrorsAbort ==
    \A k \in 1..Len(STYLES) :
        StructureError(k) =>
            /\ style <= k
            /\ pc # "done"
            /\ \A j \in k..Len(STYLES) :
                 disk[STYLES[j]] = None /\ rustfmt[STYLES[j]] = "notrun"
            /\ (style = k /\ pc = "write_icons_file") => icons = <<>>
            /\ (style = k /\ pc = "panicked")
                 => panic \in InMakeIcons \cup {"main.rs:164"}

\* The second style holds a well-formed icon and one with a path without d:
\* the run panics there, after the first style's file was written.
C5_Witness ==
    /\ pc = "panicked"
    /\ style = 2
    /\ panic = "main.rs:83"
    /\ \E e \in EntrySet(STYLES[2]) : ~Malformed(e)
    /\ Written(STYLES[1])

StyleIndex(s) == CHOOSE k \in 1..Len(STYLES) : STYLES[k] = s

\* The run got past style s.
Continued(s) == style > StyleIndex(s) \/ pc = "done"

DistinctFileNames(s) ==
    \A i, j \in 1..Len(IconEntries(s)) :
        i # j => IconEntries(s)[i].file_name # IconEntries(s)[j].file_name

\* C8 as claimed: a style whose icon files have distinct names never yields a
\* generated enumeration that declares the same variant twice (two names with
\* the same identifier are flagged instead).
C8_CollisionsDetected ==
    \A s \in StyleSet :
        (Written(s) /\ DistinctFileNames(s)) =>
            \A i, j \in 1..Len(DeclaredNames(CodeOf(s))) :
                i # j => DeclaredNames(CodeOf(s))[i] # DeclaredNames(CodeOf(s))[j]

GivenDisabled == props.given.disabled = Some(TRUE)

\* The fill the caller asked for: disabled_fill when disabled, fill
\* otherwise, each with its default.
GivenFill ==
    IF GivenDisabled
    THEN (IF props.given.disabled_fill = None THEN "#9CA3AF"
          ELSE Unwrap(props.given.disabled_fill))
    ELSE (IF props.given.fill = None THEN "currentColor" ELSE Unwrap(props.given.fill))

\* C9: the svg's fill is disabled_fill (default "#9CA3AF") when disabled is
\* true and fill (default "currentColor") when it is not, for an Icon and for
\* the Icon inside an IconButton, whose disabled attribute is the property.
C9_FillFollowsDisabled ==
    /\ props.component = "Icon" => dom.tag = "svg" /\ dom.fill = GivenFill
    /\ props.component = "IconButton"
         => /\ dom.tag = "button"
            /\ dom.svg.tag = "svg"
            /\ dom.svg.fill = GivenFill
            /\ dom.disabled = GivenDisabled

\* A disabled button with neither colour given: the default disabled fill.
C9_Witness ==
    /\ props.component = "IconButton"
    /\ props.given.disabled = Some(TRUE)
    /\ props.given.disabled_fill = None
    /\ props.given.fill = Some("blue")
    /\ dom.disabled
    /\ dom.svg.fill = "#9CA3AF"

\* C10: a click calls the user's handler once when the button was rendered
\* with a handler and not disabled, and not at all otherwise.
C10_ClickCallsHandler ==
    [][clicks' # clicks =>
         calls' = calls + (IF /\ props.component = "IconButton"
                              /\ ~GivenDisabled
                              /\ props.given.onclick # None
                           THEN 1 ELSE 0)]_vars

\* Three clicks, one on an enabled button with a handler, the button now
\* disabled.
C10_Witness ==
    /\ clicks = 3
    /\ calls = 1
    /\ props.component = "IconButton"
    /\ GivenDisabled
    /\ props.given.onclick # None

====
